---- MODULE Spec2Model ----
(***************************************************************************)
(* Court-status backend (Django + djongo): the Booking store and the two   *)
(* handlers that read and write it, court_status_api (GetStatusGrid) and   *)
(* update_booking_api (SetSlotStatus), with the admin-site writes that     *)
(* share the store.                                                        *)
(*                                                                         *)
(* Python values are modelled as follows.  None is the string "None".      *)
(* A date is the triple <<year, month, day>>.  An ObjectId is a string     *)
(* for courts and a number for time slots and bookings.  The timeSlotId    *)
(* of a request is a tagged value [kind, val]: kind "int" is a JSON        *)
(* number, "str" a string of decimal digits (val its value), "bad" a       *)
(* string that is no number, "none" an absent field.                       *)
(***************************************************************************)
EXTENDS Integers, Sequences, FiniteSets, TLC

VARIABLES sports, courts, timeSlots, bookings, nextSlotId, nextBookingId,
          nextCourtId, last, procs, reader

vars == <<sports, courts, timeSlots, bookings, nextSlotId, nextBookingId,
          nextCourtId, last, procs, reader>>

store == <<sports, courts, timeSlots, bookings, nextSlotId, nextBookingId,
           nextCourtId>>

(***************************************************************************)
(* Bounds of the model.                                                    *)
(***************************************************************************)
\* Booking rows ever inserted in one behaviour (ids are never reused).
MaxBookings == 2

\* Time slots created through the TimeSlot API in one behaviour, beside the
\* default ones.
MaxSlotWrites == 2

None == "None"

\* BookingStatus.choices: the stored values.
BookingStatus == {"available", "booked", "maintenance", "reserved"}

DefaultHourFirst == 7
DefaultHourStop == 23

(***************************************************************************)
(* Input alphabets.                                                        *)
(***************************************************************************)
Anonymous == "AnonymousUser"

\* What a failed date parse leaves; no calendar date.
BadDate == <<0, 0, 0>>
D1 == <<2024, 1, 1>>
D2 == <<2024, 1, 2>>
\* timezone.now().date() of the calls of one behaviour.
Today == D1

IntId(n) == [kind |-> "int", val |-> n]
StrId(n) == [kind |-> "str", val |-> n]
BadId == [kind |-> "bad", val |-> 0]
NoId == [kind |-> "none", val |-> 0]

\* The requests of Spec: well-formed ones, the slot index in range or "0".
Requests ==
    [user : {"bob"}, court : {"c1", "c2"},
     idx : {StrId(2), IntId(3), StrId(0)},
     status : {"available", "booked", "maintenance"},
     date : {None, "2024-01-02"}]

\* The requests of SpecErr: every field missing, malformed, out of range and
\* valid, in every combination.
AnyRequests ==
    [user : {"bob"}, court : {None, "c1", "c9", "not-an-objectid"},
     idx : {NoId, BadId, IntId(0), StrId(0), IntId(-1), IntId(-4), IntId(1),
            StrId(3), IntId(4)},
     status : {None, "available", "maintenance", "not_a_status"},
     date : {None, "2024-01-02", "01/02/2024"}]

\* The bookings the admin site adds in Spec: two slots of one court and one
\* slot of two courts.
AdminForms ==
    [court : {"c1"}, time_slot : {1, 3}, date : {D1}, status : {"booked"},
     user : {"alice"}]
    \cup [court : {"c2"}, time_slot : {3}, date : {D1}, status : {"booked"},
          user : {"alice"}]

SportInputs == {None, "cricket"}

\* The hours the TimeSlot API is asked to write, and the hours of the time
\* slots it is asked to rewrite or delete (pk 0 is the id of no time slot).
HourInputs == {0, 12, 25}
TargetHours == {7, 25}

\* The hours of the time slots the admin site books in SpecSlots.
BookedHours == {7, 22}

\* The hours the TimeSlot API is asked to write in SpecSeed.
SeedHourInputs == {0}
DateInputs == {None, "2024-01-02", "01/02/2024"}

\* The strings bson.ObjectId accepts (24 hex digits in the program).
WellFormedObjectIds == {"c1", "c2", "c3", "c9"}

(***************************************************************************)
(* Pure helpers of the Python runtime the handlers rely on.                *)
(***************************************************************************)
\* datetime.date.fromisoformat; BadDate stands for the ValueError.
fromisoformat(s) ==
    CASE s = "2024-01-01" -> D1
      [] s = "2024-01-02" -> D2
      [] OTHER -> BadDate

\* date.isoformat of the dates of the model.
isoformat(d) ==
    CASE d = D1 -> "2024-01-01"
      [] d = D2 -> "2024-01-02"
      [] OTHER -> "0000-00-00"

\* request.data.get('date', timezone.now().date().isoformat()) and its parse.
ParseDate(date_in) ==
    fromisoformat(IF date_in = None THEN isoformat(Today) ELSE date_in)

\* Python truth value of a request field (None and 0 are false).
Truthy(v) == v # None

TruthyId(t) ==
    CASE t.kind = "none" -> FALSE
      [] t.kind = "int" -> t.val # 0
      [] OTHER -> TRUE

\* int(time_slot_id): ok is FALSE for the ValueError.
int(t) ==
    IF t.kind \in {"int", "str"}
    THEN [ok |-> TRUE, val |-> t.val]
    ELSE [ok |-> FALSE, val |-> 0]

\* lst[k] of a Python list, k counted from 0 and from the end when negative;
\* ok is FALSE for the IndexError.
ListIndex(lst, k) ==
    LET n == Len(lst) IN
    CASE k >= 0 /\ k < n -> [ok |-> TRUE, val |-> lst[k + 1]]
      [] k < 0 /\ k >= -n -> [ok |-> TRUE, val |-> lst[n + k + 1]]
      [] OTHER -> [ok |-> FALSE, val |-> [_id |-> 0, hour |-> 0]]

(***************************************************************************)
(* models.py                                                               *)
(***************************************************************************)
\* formatted_slot without the replacement of 0 by 12.
formatted_slot_mod(hour) ==
    LET hour_12 == hour % 12
        am_pm == IF hour < 12 THEN "AM" ELSE "PM"
    IN  ToString(hour_12) \o ":00 " \o am_pm

\* TimeSlot.formatted_slot: f"{hour_12}:00 {am_pm}"
formatted_slot(hour) ==
    LET hour_12 == IF hour % 12 = 0 THEN 12 ELSE hour % 12
        am_pm == IF hour < 12 THEN "AM" ELSE "PM"
    IN  ToString(hour_12) \o ":00 " \o am_pm

\* TimeSlot.objects.all().order_by('hour') as a list.
RECURSIVE OrderByHour(_)
OrderByHour(slots) ==
    IF slots = {} THEN <<>>
    ELSE LET first == CHOOSE s \in slots : \A o \in slots : s.hour <= o.hour
         IN  <<first>> \o OrderByHour(slots \ {first})

\* TimeSlot.create_default_slots: get_or_create(hour=h) for h in range(7, 23).
RECURSIVE CreateSlotsFrom(_, _, _)
CreateSlotsFrom(slots, hour, next_id) ==
    IF hour >= DefaultHourStop THEN [slots |-> slots, next_id |-> next_id]
    ELSE IF \E s \in slots : s.hour = hour
         THEN CreateSlotsFrom(slots, hour + 1, next_id)
         ELSE CreateSlotsFrom(slots \cup {[_id |-> next_id, hour |-> hour]},
                              hour + 1, next_id + 1)

create_default_slots(slots, next_id) ==
    CreateSlotsFrom(slots, DefaultHourFirst, next_id)

\* Booking.objects.filter(court___id=c, time_slot___id=t, date=d)
FilterTriple(rows, c, t, d) ==
    {b \in rows : b.court = c /\ b.time_slot = t /\ b.date = d}

\* Booking.Meta.constraints: unique_booking_per_court_time_date, as the
\* storage checks it when row is written beside rows.
UniqueConstraintHolds(rows, row) ==
    \A b \in rows :
        b._id # row._id =>
            ~(b.court = row.court /\ b.time_slot = row.time_slot /\ b.date = row.date)

\* models.Model.save (super().save) of an instance whose primary key is set:
\* the row of that key is rewritten, or written when no row has the key.
\* next_id is the id the store hands out next, passed through.
ModelSave(rows, obj, next_id) ==
    LET others == {b \in rows : b._id # obj._id} IN
    IF UniqueConstraintHolds(others, obj)
    THEN [ok |-> TRUE, error |-> None, rows |-> others \cup {obj}, obj |-> obj,
          next_id |-> next_id]
    ELSE [ok |-> FALSE, error |-> "IntegrityError", rows |-> rows, obj |-> obj,
          next_id |-> next_id]

\* queryset.first(): the row of least primary key.
First(rows) == CHOOSE b \in rows : \A o \in rows : b._id <= o._id

\* Booking.save that leaves the user of the existing row as it was.
BookingSaveKeepsUser(rows, obj, next_id) ==
    IF obj._id = 0
    THEN IF obj.court = None \/ obj.time_slot = 0
         THEN [ok |-> FALSE, error |-> "RelatedObjectDoesNotExist",
               rows |-> rows, obj |-> obj, next_id |-> next_id]
         ELSE LET existing == FilterTriple(rows, obj.court, obj.time_slot, obj.date)
              IN  IF existing # {}
                  THEN ModelSave(rows, [First(existing) EXCEPT
                                           !.status = obj.status], next_id)
                  ELSE ModelSave(rows, [obj EXCEPT !._id = next_id], next_id + 1)
    ELSE ModelSave(rows, obj, next_id)

\* Booking.save.  A new instance (no pk) looks for the row of its triple
\* through self.court and self.time_slot, which raise when the reference
\* was never set; it updates that row when there is one and is inserted
\* under next_id otherwise.
BookingSave(rows, obj, next_id) ==
    IF obj._id = 0
    THEN IF obj.court = None \/ obj.time_slot = 0
         THEN [ok |-> FALSE, error |-> "RelatedObjectDoesNotExist",
               rows |-> rows, obj |-> obj, next_id |-> next_id]
         ELSE LET existing == FilterTriple(rows, obj.court, obj.time_slot, obj.date)
              IN  IF existing # {}
                  THEN ModelSave(rows, [First(existing) EXCEPT
                                           !.status = obj.status,
                                           !.user = obj.user], next_id)
                  ELSE ModelSave(rows, [obj EXCEPT !._id = next_id], next_id + 1)
    ELSE ModelSave(rows, obj, next_id)

(***************************************************************************)
(* views.py: update_booking_api (SetSlotStatus)                            *)
(***************************************************************************)
NoBooking ==
    [_id |-> 0, court |-> None, time_slot |-> 0, date |-> BadDate,
     user |-> None, status |-> None]

\* The instance update_or_create builds when get() finds no row: the
\* defaults and the lookups that name a field.  QuerySet leaves out every
\* lookup whose name holds "__", and court___id and time_slot___id do, so
\* only date, status and user are set.
CreateParams(c, t, d, new_status, user) ==
    [NoBooking EXCEPT !.date = d, !.status = new_status, !.user = user]

\* The get() of update_or_create on the three lookups.
UocGet(rows, c, t, d) ==
    LET m == FilterTriple(rows, c, t, d) IN
    CASE m = {} -> [found |-> "DoesNotExist", obj |-> NoBooking]
      [] Cardinality(m) = 1 -> [found |-> "one", obj |-> CHOOSE b \in m : TRUE]
      [] OTHER -> [found |-> "MultipleObjectsReturned", obj |-> NoBooking]

\* UocUpdate with a second row written for the triple instead of the update.
UocUpdateInsert(rows, obj, new_status, user, next_id) ==
    [ok |-> TRUE, error |-> None,
     rows |-> rows \cup {[obj EXCEPT !._id = next_id, !.status = new_status,
                                     !.user = user]},
     obj |-> [obj EXCEPT !._id = next_id, !.status = new_status, !.user = user],
     created |-> FALSE, next_id |-> next_id + 1]

\* UocUpdate with 'user' left out of the defaults.
UocUpdateKeepsUser(rows, obj, new_status, user, next_id) ==
    LET r == BookingSave(rows, [obj EXCEPT !.status = new_status], next_id)
    IN  [ok |-> r.ok, error |-> r.error, rows |-> r.rows, obj |-> r.obj,
         created |-> FALSE, next_id |-> r.next_id]

\* update_or_create when its get() found a row: status and user are set on
\* it and it is saved.
UocUpdate(rows, obj, new_status, user, next_id) ==
    LET r == BookingSave(rows, [obj EXCEPT !.status = new_status, !.user = user],
                         next_id)
    IN  [ok |-> r.ok, error |-> r.error, rows |-> r.rows, obj |-> r.obj,
         created |-> FALSE, next_id |-> r.next_id]

\* update_or_create when its get() found no row: an instance is created and
\* saved; an IntegrityError of that save is answered by a second get(), whose
\* row is then updated; any other error is raised.
UocCreate(rows, c, t, d, new_status, user, next_id) ==
    LET r == BookingSave(rows, CreateParams(c, t, d, new_status, user), next_id)
        again == UocGet(rows, c, t, d)
    IN  CASE r.ok ->
               [ok |-> TRUE, error |-> None, rows |-> r.rows, obj |-> r.obj,
                created |-> TRUE, next_id |-> r.next_id]
          [] r.error = "IntegrityError" /\ again.found = "one" ->
               UocUpdate(rows, again.obj, new_status, user, next_id)
          [] OTHER ->
               [ok |-> FALSE, error |-> r.error, rows |-> rows, obj |-> NoBooking,
                created |-> FALSE, next_id |-> next_id]

\* What update_or_create does after its get().
UocWrite(rows, got, c, t, d, new_status, user, next_id) ==
    CASE got.found = "one" -> UocUpdate(rows, got.obj, new_status, user, next_id)
      [] got.found = "DoesNotExist" ->
           UocCreate(rows, c, t, d, new_status, user, next_id)
      [] OTHER ->
           [ok |-> FALSE, error |-> got.found, rows |-> rows, obj |-> NoBooking,
            created |-> FALSE, next_id |-> next_id]

\* Booking.objects.update_or_create(court___id=c, time_slot___id=t, date=d,
\*     defaults={'status': new_status, 'user': user}), run without interleaving.
update_or_create(rows, c, t, d, new_status, user, next_id) ==
    UocWrite(rows, UocGet(rows, c, t, d), c, t, d, new_status, user, next_id)

\* ValidStatus with the check of the status left out.
ValidStatusAny(new_status) == TRUE

\* Lines 112-113: new_status in valid_statuses.
ValidStatus(new_status) == new_status \in BookingStatus

\* SlotOfIndex without the conversion to a 0-based index.
SlotOfIndexNoOffset(slot_rows, frontend_slot_id) ==
    ListIndex(OrderByHour(slot_rows), frontend_slot_id)

\* Line 127: list(time_slots)[frontend_slot_id - 1]
SlotOfIndex(slot_rows, frontend_slot_id) ==
    ListIndex(OrderByHour(slot_rows), frontend_slot_id - 1)

\* Resolve with the status checked before the missing fields.
ResolveStatusFirst(court_id, time_slot_id, new_status, date_in, court_rows, slot_rows) ==
    LET booking_date == ParseDate(date_in)
        frontend_slot_id == int(time_slot_id)
        time_slot == SlotOfIndex(slot_rows, frontend_slot_id.val)
        fail(msg, e) == [code |-> 400, error |-> msg, detail |-> e, court |-> None,
                         slot |-> 0, date |-> BadDate]
    IN  CASE ~ValidStatus(new_status) -> fail("Invalid status", None)
          [] ~(Truthy(court_id) /\ TruthyId(time_slot_id) /\ Truthy(new_status)) ->
               fail("Missing required fields", None)
          [] booking_date = BadDate -> fail("Invalid date format", None)
          [] ~frontend_slot_id.ok -> fail("Invalid court or time slot", "ValueError")
          [] ~time_slot.ok -> fail("Invalid court or time slot", "IndexError")
          [] court_id \notin WellFormedObjectIds ->
               fail("Invalid court or time slot", "InvalidId")
          [] ~(\E c \in court_rows : c._id = court_id) ->
               fail("Invalid court or time slot", "DoesNotExist")
          [] OTHER -> [code |-> 200, error |-> None, detail |-> None,
                       court |-> court_id, slot |-> time_slot.val._id,
                       date |-> booking_date]

\* Lines 101-132: the checks before the store is written.  The answer names
\* the court and the time slot found, or the 400 response; detail is the
\* exception whose text ends the message of line 132.
Resolve(court_id, time_slot_id, new_status, date_in, court_rows, slot_rows) ==
    LET booking_date == ParseDate(date_in)
        frontend_slot_id == int(time_slot_id)
        time_slot == SlotOfIndex(slot_rows, frontend_slot_id.val)
        fail(msg, e) == [code |-> 400, error |-> msg, detail |-> e, court |-> None,
                         slot |-> 0, date |-> BadDate]
    IN  CASE ~(Truthy(court_id) /\ TruthyId(time_slot_id) /\ Truthy(new_status)) ->
               fail("Missing required fields", None)
          [] ~ValidStatus(new_status) -> fail("Invalid status", None)
          [] booking_date = BadDate -> fail("Invalid date format", None)
          [] ~frontend_slot_id.ok -> fail("Invalid court or time slot", "ValueError")
          [] ~time_slot.ok -> fail("Invalid court or time slot", "IndexError")
          [] court_id \notin WellFormedObjectIds ->
               fail("Invalid court or time slot", "InvalidId")
          [] ~(\E c \in court_rows : c._id = court_id) ->
               fail("Invalid court or time slot", "DoesNotExist")
          [] OTHER -> [code |-> 200, error |-> None, detail |-> None,
                       court |-> court_id, slot |-> time_slot.val._id,
                       date |-> booking_date]

\* ActionOf with the two words exchanged.
ActionOfSwapped(created) == IF created THEN "updated" ELSE "created"

\* Line 170: 'created' if created else 'updated'
ActionOf(created) == IF created THEN "created" ELSE "updated"

\* DeleteTriple without the filter on the time slot.
DeleteTripleAnySlot(rows, c, t, d) ==
    LET gone == {b \in rows : b.court = c /\ b.date = d} IN
    [rows |-> rows \ gone,
     action |-> IF Cardinality(gone) > 0 THEN "deleted" ELSE "no_change"]

\* DeleteTriple reporting 'deleted' whatever the count.
DeleteTripleAlwaysDeleted(rows, c, t, d) ==
    [rows |-> rows \ FilterTriple(rows, c, t, d), action |-> "deleted"]

\* Lines 134-181 for status 'available': the rows of the triple are deleted.
DeleteTriple(rows, c, t, d) ==
    LET gone == FilterTriple(rows, c, t, d) IN
    [rows |-> rows \ gone,
     action |-> IF Cardinality(gone) > 0 THEN "deleted" ELSE "no_change"]

\* FailureResponse keeping the status of a success and a booking summary
\* beside the error.
FailureResponsePartial(base) ==
    [base EXCEPT !.error = "Failed to update booking", !.action = "updated"]

\* Lines 178-181: the exception of the delete or of the upsert is caught and
\* answered with status 500 and an error; the body has neither 'success' nor
\* 'booking' (no action, no id).
FailureResponse(base) ==
    [base EXCEPT !.code = 500, !.error = "Failed to update booking"]

\* update_booking_api when the storage call of line 137 or of line 153
\* raises (the store cannot be reached): the checks of lines 101-132 are made
\* as ever, the exception reaches line 178, and the rows stay as they were.
update_booking_api_raises(user, court_id, time_slot_id, new_status, date_in, court_rows, slot_rows, rows, next_id) ==
    LET v == Resolve(court_id, time_slot_id, new_status, date_in, court_rows, slot_rows)
        base == [code |-> v.code, error |-> v.error, detail |-> v.detail,
                 action |-> None, id |-> 0,
                 court |-> v.court, slot |-> v.slot, date |-> v.date,
                 rows |-> rows, next_id |-> next_id]
    IN  IF v.code # 200 THEN base ELSE FailureResponse(base)

\* update_booking_api with the date parsed after the write: a request for
\* 'available' whose date does not parse deletes the booking of today and
\* is then answered with the error of the date.
update_booking_api_late_date(user, court_id, time_slot_id, new_status, date_in, court_rows, slot_rows, rows, next_id) ==
    LET v == Resolve(court_id, time_slot_id, new_status, date_in, court_rows, slot_rows)
        w == Resolve(court_id, time_slot_id, new_status, None, court_rows, slot_rows)
        del == DeleteTriple(rows, w.court, w.slot, w.date)
        uoc == update_or_create(rows, v.court, v.slot, v.date, new_status, user, next_id)
        base == [code |-> v.code, error |-> v.error, detail |-> v.detail,
                 action |-> None, id |-> 0,
                 court |-> v.court, slot |-> v.slot, date |-> v.date,
                 rows |-> rows, next_id |-> next_id]
    IN  CASE v.error = "Invalid date format" /\ w.code = 200
                 /\ new_status = "available" ->
               [base EXCEPT !.rows = del.rows]
          [] v.code # 200 -> base
          [] new_status = "available" ->
               [base EXCEPT !.action = del.action, !.rows = del.rows]
          [] uoc.ok ->
               [base EXCEPT !.action = ActionOf(uoc.created),
                            !.id = uoc.obj._id, !.rows = uoc.rows,
                            !.next_id = uoc.next_id]
          [] OTHER -> FailureResponse(base)

\* The response of update_booking_api to an authenticated user and the rows
\* it leaves.  id is the booking id of the response (0 when it has none).
update_booking_api(user, court_id, time_slot_id, new_status, date_in, court_rows, slot_rows, rows, next_id) ==
    LET v == Resolve(court_id, time_slot_id, new_status, date_in, court_rows, slot_rows)
        del == DeleteTriple(rows, v.court, v.slot, v.date)
        uoc == update_or_create(rows, v.court, v.slot, v.date, new_status, user, next_id)
        base == [code |-> v.code, error |-> v.error, detail |-> v.detail,
                 action |-> None, id |-> 0,
                 court |-> v.court, slot |-> v.slot, date |-> v.date,
                 rows |-> rows, next_id |-> next_id]
    IN  CASE v.code # 200 -> base
          [] new_status = "available" ->
               [base EXCEPT !.action = del.action, !.rows = del.rows]
          [] uoc.ok ->
               [base EXCEPT !.action = ActionOf(uoc.created),
                            !.id = uoc.obj._id, !.rows = uoc.rows,
                            !.next_id = uoc.next_id]
          [] OTHER -> FailureResponse(base)

(***************************************************************************)
(* views.py: court_status_api (GetStatusGrid)                              *)
(***************************************************************************)
\* The order of the primary keys of the sports of the model.
PkRank(id) ==
    CASE id = "badminton" -> 1
      [] id = "basketball" -> 2
      [] id = "cricket" -> 3
      [] id = "squash" -> 4
      [] id = "table-tennis" -> 5
      [] id = "volleyball" -> 6
      [] OTHER -> 7

\* Sport.objects.first(): the sport of least primary key.
FirstSport(sport_rows) ==
    CHOOSE s \in sport_rows : \A o \in sport_rows : PkRank(s.id) <= PkRank(o.id)

\* EmptySlots with the slots numbered from 0 (enumerate without its start).
EmptySlotsFromZero(time_slots) ==
    [i \in 1..Len(time_slots) |->
        [id |-> i - 1, time |-> formatted_slot(time_slots[i].hour),
         status |-> "available"]]

\* Lines 58-63: the slots of a court before its bookings are read.
EmptySlots(time_slots) ==
    [i \in 1..Len(time_slots) |->
        [id |-> i, time |-> formatted_slot(time_slots[i].hour), status |-> "available"]]

\* MatchingIndex answering with the first position when no slot is the
\* booking's.
MatchingIndexOrFirst(time_slots, slot_id) ==
    IF \E i \in 1..Len(time_slots) : time_slots[i]._id = slot_id
    THEN CHOOSE i \in 1..Len(time_slots) :
             /\ time_slots[i]._id = slot_id
             /\ \A j \in 1..(i - 1) : time_slots[j]._id # slot_id
    ELSE 1

\* MatchingIndex taking the time slot's own id for its frontend index.
MatchingIndexById(time_slots, slot_id) ==
    IF slot_id \in 1..Len(time_slots) THEN slot_id ELSE 0

\* Lines 69-74: the first position whose slot is the booking's, 0 for none.
MatchingIndex(time_slots, slot_id) ==
    IF \E i \in 1..Len(time_slots) : time_slots[i]._id = slot_id
    THEN CHOOSE i \in 1..Len(time_slots) :
             /\ time_slots[i]._id = slot_id
             /\ \A j \in 1..(i - 1) : time_slots[j]._id # slot_id
    ELSE 0

\* Lines 66-74: the bookings of the court are read one after the other
\* (here by ascending id) and each sets the status of its slot.
RECURSIVE ApplyBookings(_, _, _)
ApplyBookings(slots, time_slots, court_bookings) ==
    IF court_bookings = {} THEN slots
    ELSE LET booking == First(court_bookings)
             i == MatchingIndex(time_slots, booking.time_slot)
             next == IF i # 0 /\ i \in DOMAIN slots
                     THEN [slots EXCEPT ![i].status = booking.status]
                     ELSE slots
         IN  ApplyBookings(next, time_slots, court_bookings \ {booking})

\* Lines 42-46: Booking.objects.filter(court__sport__id=sport_id, date=d)
SportBookings(rows, court_rows, sport_id, d) ==
    {b \in rows : /\ b.date = d
                  /\ \E c \in court_rows : c._id = b.court /\ c.sport = sport_id}

\* CourtBookings without the filter on the court.
CourtBookingsAll(bookings_q, court_id) == bookings_q

\* Line 66: bookings.filter(court___id=court._id)
CourtBookings(bookings_q, court_id) == {b \in bookings_q : b.court = court_id}

\* Lines 49-76: court_data, as the set of its cells.
CourtData(court_rows, time_slots, bookings_q, sport_id) ==
    LET of_sport == {c \in court_rows : c.sport = sport_id}
        slots_of(c) == ApplyBookings(EmptySlots(time_slots), time_slots,
                                     CourtBookings(bookings_q, c._id))
    IN  {[court |-> c._id, id |-> slots_of(c)[i].id, time |-> slots_of(c)[i].time,
          status |-> slots_of(c)[i].status] :
            c \in of_sport, i \in 1..Len(time_slots)}

\* court_status_api with the default time slots created before the date
\* and the sport are looked at.
court_status_api_seed_first(sport_in, date_in, sport_rows, court_rows, slot_rows, rows, next_slot_id) ==
    LET booking_date == ParseDate(date_in)
        sport_id == IF Truthy(sport_in) THEN sport_in ELSE FirstSport(sport_rows).id
        seeded == IF slot_rows = {}
                  THEN create_default_slots(slot_rows, next_slot_id)
                  ELSE [slots |-> slot_rows, next_id |-> next_slot_id]
        time_slots == OrderByHour(seeded.slots)
        base == [code |-> 200, error |-> None, sport |-> None, date |-> booking_date,
                 courts |-> {}, slots |-> seeded.slots, next_id |-> seeded.next_id]
    IN  CASE booking_date = BadDate ->
               [base EXCEPT !.code = 400, !.error = "Invalid date format"]
          [] ~Truthy(sport_in) /\ sport_rows = {} ->
               [base EXCEPT !.code = 404, !.error = "No sports available"]
          [] OTHER ->
               [base EXCEPT !.sport = sport_id,
                            !.courts = CourtData(court_rows, time_slots,
                                           SportBookings(rows, court_rows,
                                                         sport_id, booking_date),
                                           sport_id)]

\* The response of court_status_api and the time slots it leaves.
court_status_api(sport_in, date_in, sport_rows, court_rows, slot_rows, rows, next_slot_id) ==
    LET booking_date == ParseDate(date_in)
        sport_id == IF Truthy(sport_in) THEN sport_in ELSE FirstSport(sport_rows).id
        seeded == IF slot_rows = {}
                  THEN create_default_slots(slot_rows, next_slot_id)
                  ELSE [slots |-> slot_rows, next_id |-> next_slot_id]
        time_slots == OrderByHour(seeded.slots)
        base == [code |-> 200, error |-> None, sport |-> None, date |-> booking_date,
                 courts |-> {}, slots |-> slot_rows, next_id |-> next_slot_id]
    IN  CASE booking_date = BadDate ->
               [base EXCEPT !.code = 400, !.error = "Invalid date format"]
          [] ~Truthy(sport_in) /\ sport_rows = {} ->
               [base EXCEPT !.code = 404, !.error = "No sports available"]
          [] OTHER ->
               [base EXCEPT !.sport = sport_id,
                            !.courts = CourtData(court_rows, time_slots,
                                           SportBookings(rows, court_rows,
                                                         sport_id, booking_date),
                                           sport_id),
                            !.slots = seeded.slots, !.next_id = seeded.next_id]

(***************************************************************************)
(* views.py: the time slots (time_slots_api, TimeSlotViewSet) and          *)
(* create_sample_data; the deletes, which cascade to the bookings.         *)
(***************************************************************************)
\* TimeSlotSerializer: id, hour, formatted_slot.
TimeSlotSerializer(t) ==
    [id |-> t._id, hour |-> t.hour, formatted_slot |-> formatted_slot(t.hour)]

\* TimeSlotSerializer(time_slots, many=True).data
SerializeSlots(time_slots) ==
    [i \in 1..Len(time_slots) |-> TimeSlotSerializer(time_slots[i])]

\* time_slots_api: the default slots are created when there is no time slot,
\* and the slots are listed by hour.
time_slots_api(slot_rows, next_slot_id) ==
    LET seeded == IF slot_rows = {}
                  THEN create_default_slots(slot_rows, next_slot_id)
                  ELSE [slots |-> slot_rows, next_id |-> next_slot_id]
    IN  [code |-> 200, listed |-> SerializeSlots(OrderByHour(seeded.slots)),
         slots |-> seeded.slots, next_id |-> seeded.next_id]

\* TimeSlotViewSet.list, which the router serves at /api/time-slots/: the
\* queryset of the view set, serialized.
ViewSetList(slot_rows, next_slot_id) ==
    [code |-> 200, listed |-> SerializeSlots(OrderByHour(slot_rows)),
     slots |-> slot_rows, next_id |-> next_slot_id]

\* ViewSetCreate that writes without the validator of the unique hour.
ViewSetCreateUnchecked(slot_rows, hour, next_slot_id) ==
    [code |-> 201, slots |-> slot_rows \cup {[_id |-> next_slot_id, hour |-> hour]},
     next_id |-> next_slot_id + 1]

\* TimeSlotViewSet.create: the serializer takes any integer for hour and its
\* UniqueValidator refuses an hour some time slot has.
ViewSetCreate(slot_rows, hour, next_slot_id) ==
    IF \E t \in slot_rows : t.hour = hour
    THEN [code |-> 400, slots |-> slot_rows, next_id |-> next_slot_id]
    ELSE [code |-> 201, slots |-> slot_rows \cup {[_id |-> next_slot_id, hour |-> hour]},
          next_id |-> next_slot_id + 1]

\* TimeSlotViewSet.update: the hour of the time slot of id pk is rewritten;
\* the UniqueValidator leaves the time slot itself out of its query.
ViewSetUpdate(slot_rows, pk, hour) ==
    CASE ~(\E t \in slot_rows : t._id = pk) -> [code |-> 404, slots |-> slot_rows]
      [] \E t \in slot_rows : t._id # pk /\ t.hour = hour ->
           [code |-> 400, slots |-> slot_rows]
      [] OTHER ->
           [code |-> 200,
            slots |-> {IF t._id = pk THEN [t EXCEPT !.hour = hour] ELSE t :
                          t \in slot_rows}]

\* CascadeSlot that deletes the bookings of every time slot.
CascadeSlotAll(rows, pk) == {}

\* CascadeSlot that leaves the bookings of the time slot in the store.
CascadeSlotNone(rows, pk) == rows

\* Booking.time_slot, on_delete=CASCADE: the bookings left when the time
\* slot of id pk is deleted.
CascadeSlot(rows, pk) == {b \in rows : b.time_slot # pk}

\* TimeSlotViewSet.destroy: the time slot of id pk and the bookings that
\* reference it are deleted.
ViewSetDestroy(slot_rows, rows, pk) ==
    IF \E t \in slot_rows : t._id = pk
    THEN [code |-> 204, slots |-> {t \in slot_rows : t._id # pk},
          rows |-> CascadeSlot(rows, pk)]
    ELSE [code |-> 404, slots |-> slot_rows, rows |-> rows]

\* Booking.court, on_delete=CASCADE: the bookings left when the court of id
\* pk is deleted.
CascadeCourt(rows, pk) == {b \in rows : b.court # pk}

\* Lines 225-232: sports_data.
SampleSports ==
    << [id |-> "badminton", name |-> "Badminton"],
       [id |-> "volleyball", name |-> "Volleyball"],
       [id |-> "basketball", name |-> "Basketball"],
       [id |-> "squash", name |-> "Squash"],
       [id |-> "table-tennis", name |-> "Table Tennis"],
       [id |-> "cricket", name |-> "Cricket"] >>

\* Line 247: range(1, 5).
CourtsPerSport == 4

\* Lines 234-238: Sport.objects.get_or_create(id=..., defaults={'name': ...})
\* for the sports of sports_data from position k on.
RECURSIVE CreateSports(_, _)
CreateSports(sport_rows, k) ==
    IF k > Len(SampleSports) THEN sport_rows
    ELSE IF \E x \in sport_rows : x.id = SampleSports[k].id
         THEN CreateSports(sport_rows, k + 1)
         ELSE CreateSports(sport_rows \cup {SampleSports[k]}, k + 1)

\* Line 250: the name of the i-th court of a sport.
CourtName(sport_name, i) ==
    IF sport_name # "Cricket"
    THEN sport_name \o " Court " \o ToString(i)
    ELSE "Pitch-" \o ToString(i)

\* The ObjectId of the n-th court created.
CourtId(n) == "c" \o ToString(n)

\* Lines 244-253: Court.objects.get_or_create(sport=sport, name=...) for
\* the courts i..4 of the sports of sports_data from position k on.  ok is
\* FALSE when a get() finds two courts (MultipleObjectsReturned), which
\* ends the handler.
RECURSIVE CreateCourts(_, _, _, _, _)
CreateCourts(sport_rows, court_rows, k, i, next_court_id) ==
    IF k > Len(SampleSports)
    THEN [ok |-> TRUE, courts |-> court_rows, next_id |-> next_court_id]
    ELSE IF i > CourtsPerSport \/ ~(\E x \in sport_rows : x.id = SampleSports[k].id)
    THEN CreateCourts(sport_rows, court_rows, k + 1, 1, next_court_id)
    ELSE LET sport == CHOOSE x \in sport_rows : x.id = SampleSports[k].id
             name == CourtName(sport.name, i)
             found == {c \in court_rows : c.sport = sport.id /\ c.name = name}
         IN  CASE Cardinality(found) > 1 ->
                    [ok |-> FALSE, courts |-> court_rows, next_id |-> next_court_id]
               [] Cardinality(found) = 1 ->
                    CreateCourts(sport_rows, court_rows, k, i + 1, next_court_id)
               [] OTHER ->
                    CreateCourts(sport_rows,
                                 court_rows \cup {[_id |-> CourtId(next_court_id),
                                                   sport |-> sport.id, name |-> name]},
                                 k, i + 1, next_court_id + 1)

\* create_sample_data with the courts created without the get() of
\* get_or_create.
create_sample_data_create(sport_rows, court_rows, slot_rows, next_slot_id, next_court_id) ==
    LET new_sports == CreateSports(sport_rows, 1)
        seeded == create_default_slots(slot_rows, next_slot_id)
        made == CreateCourts(new_sports, {}, 1, 1, next_court_id)
    IN  [code |-> IF made.ok THEN 200 ELSE 500, sports |-> new_sports,
         slots |-> seeded.slots, next_slot_id |-> seeded.next_id,
         courts |-> court_rows \cup made.courts, next_court_id |-> made.next_id]

\* create_sample_data: the sports, the default time slots, the courts.
create_sample_data(sport_rows, court_rows, slot_rows, next_slot_id, next_court_id) ==
    LET new_sports == CreateSports(sport_rows, 1)
        seeded == create_default_slots(slot_rows, next_slot_id)
        made == CreateCourts(new_sports, court_rows, 1, 1, next_court_id)
    IN  [code |-> IF made.ok THEN 200 ELSE 500, sports |-> new_sports,
         slots |-> seeded.slots, next_slot_id |-> seeded.next_id,
         courts |-> made.courts, next_court_id |-> made.next_id]

(***************************************************************************)
(* The state machine.                                                      *)
(***************************************************************************)
\* What `last` holds of the latest call: the operation, the request fields
\* and the response.  Fields a call does not have keep these values.
Blank ==
    [op |-> "none", user |-> None, court |-> None, idx |-> NoId, date |-> BadDate,
     status |-> None, sport |-> None, code |-> 0, error |-> None, action |-> None,
     id |-> 0, slot |-> 0, grid |-> {}, listed |-> <<>>]

\* A call of update_booking_api in flight: where it is, what it resolved,
\* what its get() returned and its response.  had tells whether the triple
\* held a booking when the call resolved it.
Idle ==
    [pc |-> "idle", user |-> None, court |-> None, slot |-> 0, date |-> BadDate,
     status |-> None, got |-> [found |-> None, obj |-> NoBooking], code |-> 0,
     action |-> None, had |-> FALSE]

Procs == {1, 2}

\* A call of court_status_api in flight: where it is, the sport and the date
\* it resolved, the courts it fetched and has not yet filled, the time slots
\* it fetched, the cells it built and its response.  seen is the history of
\* the read: every (court, time slot, date, status) some booking held at a
\* moment since the call started.
NoRead ==
    [pc |-> "idle", sport |-> None, date |-> BadDate, code |-> 0, error |-> None,
     time_slots |-> <<>>, todo |-> {}, cells |-> {}, seen |-> {}]

Init ==
    /\ sports = {[id |-> "badminton", name |-> "Badminton"],
                 [id |-> "cricket", name |-> "Cricket"]}
    /\ courts = {[_id |-> "c1", sport |-> "badminton", name |-> "Badminton Court 1"],
                 [_id |-> "c2", sport |-> "badminton", name |-> "Badminton Court 2"],
                 [_id |-> "c3", sport |-> "cricket", name |-> "Pitch-1"]}
    /\ timeSlots = {[_id |-> 1, hour |-> 12], [_id |-> 2, hour |-> 7],
                    [_id |-> 3, hour |-> 22]}
    /\ bookings = {}
    /\ nextSlotId = 4
    /\ nextBookingId = 1
    /\ nextCourtId = 4
    /\ last = Blank
    /\ procs = [p \in Procs |-> Idle]
    /\ reader = NoRead

\* POST /api/update-booking/ handled from request to response.  `last` keeps
\* the response (for a success with the court and the slot it names, by id)
\* and, of the request, the slot index and the status.
SetSlotStatus(req) ==
    LET r == update_booking_api(req.user, req.court, req.idx, req.status, req.date,
                                courts, timeSlots, bookings, nextBookingId)
        seen == [Blank EXCEPT !.op = "set", !.idx = req.idx, !.status = req.status,
                              !.code = r.code, !.error = r.error]
    IN  /\ bookings' = r.rows
        /\ nextBookingId' = r.next_id
        /\ last' = IF r.code = 200
                   THEN [seen EXCEPT !.user = req.user, !.court = r.court,
                                     !.date = r.date, !.action = r.action,
                                     !.id = r.id, !.slot = r.slot]
                   ELSE seen
        /\ UNCHANGED <<sports, courts, timeSlots, nextSlotId, nextCourtId, procs, reader>>

\* POST /api/update-booking/ while the store fails: the request passes the
\* checks and the delete or the upsert raises.
SetSlotStatusFault(req) ==
    LET r == update_booking_api_raises(req.user, req.court, req.idx, req.status,
                                       req.date, courts, timeSlots, bookings,
                                       nextBookingId)
    IN  /\ Resolve(req.court, req.idx, req.status, req.date, courts, timeSlots).code = 200
        /\ last' = [Blank EXCEPT !.op = "set", !.idx = req.idx, !.status = req.status,
                                 !.code = r.code, !.error = r.error,
                                 !.action = r.action, !.id = r.id]
        /\ UNCHANGED <<store, procs, reader>>

\* SetSlotStatusDenied without the permission class: the view runs for the
\* anonymous caller.
SetSlotStatusUnchecked(req) == SetSlotStatus([req EXCEPT !.user = Anonymous])

\* IsAuthenticated refuses the request of an anonymous caller before the
\* view runs.
SetSlotStatusDenied(req) ==
    /\ last' = [Blank EXCEPT !.op = "set", !.user = Anonymous, !.idx = req.idx,
                             !.status = req.status, !.code = 401,
                             !.error = "Authentication credentials were not provided"]
    /\ UNCHANGED <<store, procs, reader>>

\* GET /api/court-status/ handled from request to response.
GetStatusGrid(sport_in, date_in) ==
    LET r == court_status_api(sport_in, date_in, sports, courts, timeSlots, bookings,
                              nextSlotId)
    IN  /\ timeSlots' = r.slots
        /\ nextSlotId' = r.next_id
        /\ last' = [Blank EXCEPT !.op = "grid", !.sport = r.sport, !.date = r.date,
                                 !.code = r.code, !.error = r.error, !.grid = r.courts]
        /\ UNCHANGED <<sports, courts, bookings, nextBookingId, nextCourtId, procs,
                      reader>>

\* The admin site adds a booking: BookingForm takes a court and a time slot
\* among those that exist, BookingAdmin.save_model calls Booking.save and
\* reports what it raises as a message.
AdminAddBooking(court_id, slot_id, d, new_status, user) ==
    LET r == BookingSave(bookings,
                         [_id |-> 0, court |-> court_id, time_slot |-> slot_id,
                          date |-> d, user |-> user, status |-> new_status],
                         nextBookingId)
    IN  /\ \E c \in courts : c._id = court_id
        /\ \E t \in timeSlots : t._id = slot_id
        /\ r.next_id <= MaxBookings + 1
        /\ bookings' = r.rows
        /\ nextBookingId' = r.next_id
        /\ last' = [Blank EXCEPT !.op = "admin_add"]
        /\ UNCHANGED <<sports, courts, timeSlots, nextSlotId, nextCourtId, procs, reader>>

\* The admin actions mark_as_available, mark_as_booked, mark_as_maintenance:
\* queryset.update(status=...) on the rows selected.
AdminMarkAs(new_status, selected) ==
    /\ selected # {}
    /\ bookings' = {IF b \in selected THEN [b EXCEPT !.status = new_status] ELSE b :
                        b \in bookings}
    /\ last' = [Blank EXCEPT !.op = "admin_mark"]
    /\ UNCHANGED <<sports, courts, timeSlots, nextSlotId, nextBookingId, nextCourtId,
                    procs, reader>>

Next ==
    \/ \E req \in Requests : SetSlotStatus(req)
    \/ \E sport_in \in SportInputs, date_in \in DateInputs :
            GetStatusGrid(sport_in, date_in)
    \/ \E f \in AdminForms :
            AdminAddBooking(f.court, f.time_slot, f.date, f.status, f.user)
    \/ \E new_status \in {"available", "booked", "maintenance"},
          selected \in SUBSET bookings :
            AdminMarkAs(new_status, selected)

Spec == Init /\ [][Next]_vars

\* The writers of the Booking store alone: update_booking_api and the admin
\* form.
NextFrame ==
    \/ \E req \in Requests : SetSlotStatus(req)
    \/ \E f \in AdminForms :
            AdminAddBooking(f.court, f.time_slot, f.date, f.status, f.user)

SpecFrame == Init /\ [][NextFrame]_vars

\* The validation of update_booking_api under every shape of request, beside
\* one booking of the last time slot.
NextErr ==
    \/ \E req \in AnyRequests : SetSlotStatus(req)
    \/ \E req \in AnyRequests : SetSlotStatusDenied(req)
    \/ \E req \in AnyRequests : SetSlotStatusFault(req)
    \/ AdminAddBooking("c1", 3, D1, "booked", "alice")

SpecErr == Init /\ [][NextErr]_vars

(***************************************************************************)
(* Two calls of update_booking_api at a time.  A call reads and writes the *)
(* store at lines 126-130 (resolution), at the delete of line 137, at the  *)
(* get() of update_or_create and at the save that follows it; the calls    *)
(* interleave between these.                                               *)
(***************************************************************************)
ConcRequests ==
    [court : {"c1"}, idx : {IntId(3), StrId(2)},
     status : {"available", "booked", "maintenance"}, date : {None}]

UserOf(p) == IF p = 1 THEN "alice" ELSE "bob"

\* The booking an admin added before the calls start.
Row0 ==
    [_id |-> 1, court |-> "c1", time_slot |-> 3, date |-> D1, user |-> "alice",
     status |-> "booked"]

InitConc ==
    /\ sports = {[id |-> "badminton", name |-> "Badminton"],
                 [id |-> "cricket", name |-> "Cricket"]}
    /\ courts = {[_id |-> "c1", sport |-> "badminton", name |-> "Badminton Court 1"],
                 [_id |-> "c2", sport |-> "badminton", name |-> "Badminton Court 2"],
                 [_id |-> "c3", sport |-> "cricket", name |-> "Pitch-1"]}
    /\ timeSlots = {[_id |-> 1, hour |-> 12], [_id |-> 2, hour |-> 7],
                    [_id |-> 3, hour |-> 22]}
    /\ \/ bookings = {} /\ nextBookingId = 1
       \/ bookings = {Row0} /\ nextBookingId = 2
    /\ nextSlotId = 4
    /\ nextCourtId = 4
    /\ last = Blank
    /\ procs = [p \in Procs |-> Idle]
    /\ reader = NoRead

\* Lines 101-132.
ConcResolve(p, req) ==
    LET v == Resolve(req.court, req.idx, req.status, req.date, courts, timeSlots)
    IN  /\ procs[p].pc = "idle"
        /\ procs' = [procs EXCEPT ![p] =
                        [Idle EXCEPT !.pc = IF v.code = 200 THEN "resolved" ELSE "done",
                                     !.user = UserOf(p), !.court = v.court,
                                     !.slot = v.slot, !.date = v.date,
                                     !.status = req.status, !.code = v.code,
                                     !.had = FilterTriple(bookings, v.court, v.slot,
                                                          v.date) # {}]]
        /\ UNCHANGED <<store, last, reader>>

\* Lines 137-150.
ConcDelete(p) ==
    LET me == procs[p]
        del == DeleteTriple(bookings, me.court, me.slot, me.date)
    IN  /\ me.pc = "resolved"
        /\ me.status = "available"
        /\ bookings' = del.rows
        /\ procs' = [procs EXCEPT ![p].pc = "done", ![p].action = del.action]
        /\ UNCHANGED <<sports, courts, timeSlots, nextSlotId, nextBookingId, nextCourtId,
                       last, reader>>

\* Line 153: the get() of update_or_create.
ConcGet(p) ==
    LET me == procs[p] IN
    /\ me.pc = "resolved"
    /\ me.status # "available"
    /\ procs' = [procs EXCEPT ![p].pc = "got",
                              ![p].got = UocGet(bookings, me.court, me.slot, me.date)]
    /\ UNCHANGED <<store, last, reader>>

\* Lines 153-181: the rest of update_or_create and the response.
ConcWrite(p) ==
    LET me == procs[p]
        r == UocWrite(bookings, me.got, me.court, me.slot, me.date, me.status,
                      me.user, nextBookingId)
    IN  /\ me.pc = "got"
        /\ bookings' = r.rows
        /\ nextBookingId' = r.next_id
        /\ procs' = [procs EXCEPT ![p].pc = "done",
                                  ![p].code = IF r.ok THEN 200 ELSE 500,
                                  ![p].action = IF r.ok THEN ActionOf(r.created)
                                                ELSE None]
        /\ UNCHANGED <<sports, courts, timeSlots, nextSlotId, nextCourtId, last, reader>>

NextConc ==
    \/ \E p \in Procs, req \in ConcRequests : ConcResolve(p, req)
    \/ \E p \in Procs : ConcDelete(p)
    \/ \E p \in Procs : ConcGet(p)
    \/ \E p \in Procs : ConcWrite(p)

SpecConc == InitConc /\ [][NextConc]_vars

(***************************************************************************)
(* The time slots and the catalog: lazy seeding, the TimeSlot API, the     *)
(* sample data and the deletes, from a store without time slots.           *)
(***************************************************************************)
\* GET /api/time-slots/, which urls.py routes to TimeSlotViewSet (the
\* router); time_slots_api is named by no route.
ListTimeSlots ==
    LET r == ViewSetList(timeSlots, nextSlotId) IN
    /\ timeSlots' = r.slots
    /\ nextSlotId' = r.next_id
    /\ last' = [Blank EXCEPT !.op = "list", !.code = r.code, !.listed = r.listed]
    /\ UNCHANGED <<sports, courts, bookings, nextBookingId, nextCourtId, procs,
                      reader>>

\* POST /api/time-slots/ {hour}
TimeSlotCreate(hour) ==
    LET r == ViewSetCreate(timeSlots, hour, nextSlotId) IN
    /\ timeSlots' = r.slots
    /\ nextSlotId' = r.next_id
    /\ last' = [Blank EXCEPT !.op = "slot_create", !.code = r.code]
    /\ UNCHANGED <<sports, courts, bookings, nextBookingId, nextCourtId, procs,
                      reader>>

\* PUT /api/time-slots/<pk>/ {hour}
TimeSlotUpdate(pk, hour) ==
    LET r == ViewSetUpdate(timeSlots, pk, hour) IN
    /\ timeSlots' = r.slots
    /\ last' = [Blank EXCEPT !.op = "slot_update", !.code = r.code]
    /\ UNCHANGED <<sports, courts, bookings, nextSlotId, nextBookingId, nextCourtId,
                   procs, reader>>

\* DELETE /api/time-slots/<pk>/
TimeSlotDestroy(pk) ==
    LET r == ViewSetDestroy(timeSlots, bookings, pk) IN
    /\ timeSlots' = r.slots
    /\ bookings' = r.rows
    /\ last' = [Blank EXCEPT !.op = "slot_destroy", !.code = r.code]
    /\ UNCHANGED <<sports, courts, nextSlotId, nextBookingId, nextCourtId, procs,
                      reader>>

\* POST /api/create-sample-data/ of an authenticated caller.
SeedSampleData ==
    LET r == create_sample_data(sports, courts, timeSlots, nextSlotId, nextCourtId) IN
    /\ sports' = r.sports
    /\ courts' = r.courts
    /\ timeSlots' = r.slots
    /\ nextSlotId' = r.next_slot_id
    /\ nextCourtId' = r.next_court_id
    /\ last' = [Blank EXCEPT !.op = "seed", !.code = r.code]
    /\ UNCHANGED <<bookings, nextBookingId, procs, reader>>

\* The admin site deletes the court of id pk (the action "delete selected"):
\* the court and the bookings that reference it are deleted.
CourtDelete(pk) ==
    /\ \E c \in courts : c._id = pk
    /\ courts' = {c \in courts : c._id # pk}
    /\ bookings' = CascadeCourt(bookings, pk)
    /\ last' = [Blank EXCEPT !.op = "court_delete"]
    /\ UNCHANGED <<sports, timeSlots, nextSlotId, nextBookingId, nextCourtId, procs,
                      reader>>

\* No time slot yet; the catalog is empty or holds the sports and courts of
\* Init.
InitSeed ==
    /\ \/ /\ sports = {}
          /\ courts = {}
       \/ /\ sports = {[id |-> "badminton", name |-> "Badminton"],
                        [id |-> "cricket", name |-> "Cricket"]}
          /\ courts = {[_id |-> "c1", sport |-> "badminton",
                        name |-> "Badminton Court 1"],
                       [_id |-> "c2", sport |-> "badminton",
                        name |-> "Badminton Court 2"],
                       [_id |-> "c3", sport |-> "cricket", name |-> "Pitch-1"]}
    /\ timeSlots = {}
    /\ bookings = {}
    /\ nextSlotId = 1
    /\ nextBookingId = 1
    /\ nextCourtId = 4
    /\ last = Blank
    /\ procs = [p \in Procs |-> Idle]
    /\ reader = NoRead

\* The ids the default time slots take, and MaxSlotWrites more.
SeedIdCap == (DefaultHourStop - DefaultHourFirst) + MaxSlotWrites

NextSeed ==
    \/ \E sport_in \in SportInputs, date_in \in DateInputs :
            GetStatusGrid(sport_in, date_in)
    \/ ListTimeSlots
    \/ SeedSampleData
    \/ \E hour \in SeedHourInputs : nextSlotId <= SeedIdCap /\ TimeSlotCreate(hour)
    \/ \E t \in timeSlots :
            /\ t.hour = DefaultHourFirst /\ nextSlotId <= SeedIdCap
            /\ TimeSlotDestroy(t._id)
    \/ CourtDelete("c1")

SpecSeed == InitSeed /\ [][NextSeed]_vars

\* court_status_api from a store without time slots, beside the bookings the
\* admin site adds and marks once there are time slots.
NextGrid ==
    \/ \E sport_in \in SportInputs, date_in \in DateInputs :
            GetStatusGrid(sport_in, date_in)
    \/ \E t \in timeSlots, c \in courts :
            /\ t.hour \in BookedHours
            /\ AdminAddBooking(c._id, t._id, D1, "booked", "alice")
    \/ \E b \in bookings : AdminMarkAs("maintenance", {b})

SpecGrid == InitSeed /\ [][NextGrid]_vars

\* The TimeSlot API, the deletes and the bookings of the admin site, from the
\* store of Init.  Three ids are taken by the time slots of Init.
NextSlots ==
    \/ \E hour \in HourInputs :
            nextSlotId <= 3 + MaxSlotWrites /\ TimeSlotCreate(hour)
    \/ \E t \in timeSlots, hour \in HourInputs :
            t.hour \in TargetHours /\ TimeSlotUpdate(t._id, hour)
    \/ \E t \in timeSlots : t.hour \in TargetHours /\ TimeSlotDestroy(t._id)
    \/ TimeSlotDestroy(0)
    \/ ListTimeSlots
    \/ \E t \in timeSlots :
            /\ t.hour \in BookedHours
            /\ AdminAddBooking("c1", t._id, D1, "booked", "alice")
    \/ CourtDelete("c1")

SpecSlots == Init /\ [][NextSlots]_vars

\* The two calls beside the admin site, which adds the booking of the triple
\* at any moment between their steps, beside the deletes of the time slot
\* and of the court of the triple, and beside the reads of the grid.
NextRace ==
    \/ NextConc
    \/ AdminAddBooking("c1", 3, D1, "booked", "carol")
    \/ TimeSlotDestroy(3)
    \/ CourtDelete("c1")
    \/ GetStatusGrid("badminton", None)

SpecRace == InitConc /\ [][NextRace]_vars

(***************************************************************************)
(* court_status_api beside the writers.  Its querysets are lazy: the       *)
(* courts are fetched when the loop of line 49 starts, the time slots when *)
(* they are first iterated (line 58, or line 79 without a court) and kept  *)
(* from then on, the bookings of each court by the query of line 66.  The  *)
(* writers act between these queries.                                      *)
(***************************************************************************)
\* What the bookings rows of the store say: the statuses the triples hold.
Snapshot(rows) == {<<b.court, b.time_slot, b.date, b.status>> : b \in rows}

\* Lines 17-39: the date, the sport, the default time slots.
ReadStart(sport_in, date_in) ==
    LET r == court_status_api(sport_in, date_in, sports, courts, timeSlots, {},
                              nextSlotId)
    IN  /\ reader.pc = "idle"
        /\ timeSlots' = r.slots
        /\ nextSlotId' = r.next_id
        /\ reader' = IF r.code = 200
                      THEN [NoRead EXCEPT !.pc = "started", !.sport = r.sport,
                                          !.date = r.date,
                                          !.seen = Snapshot(bookings)]
                      ELSE [NoRead EXCEPT !.pc = "done", !.code = r.code,
                                          !.error = r.error]
        /\ UNCHANGED <<sports, courts, bookings, nextBookingId, nextCourtId, last,
                       procs>>

\* Line 49: for court in courts.
ReadCourts ==
    /\ reader.pc = "started"
    /\ reader' = [reader EXCEPT !.pc = "courts",
                                !.todo = {c \in courts : c.sport = reader.sport},
                                !.seen = @ \cup Snapshot(bookings)]
    /\ UNCHANGED <<store, last, procs>>

\* Line 58 (line 79 when the sport has no court): the time slots are
\* fetched; without a court the response follows.
ReadSlots ==
    /\ reader.pc = "courts"
    /\ reader' = [reader EXCEPT !.pc = IF reader.todo = {} THEN "done" ELSE "rows",
                                !.code = IF reader.todo = {} THEN 200 ELSE 0,
                                !.time_slots = OrderByHour(timeSlots),
                                !.seen = @ \cup Snapshot(bookings)]
    /\ UNCHANGED <<store, last, procs>>

\* Lines 50-76 for one court: its bookings are fetched and its cells built;
\* after the last court the response follows.  The courts have no ordering
\* (Court.Meta names none), so any court not yet filled may come next.
ReadCourt(court) ==
    LET court_bookings == CourtBookings(SportBookings(bookings, courts, reader.sport,
                                                      reader.date), court._id)
        slots == ApplyBookings(EmptySlots(reader.time_slots), reader.time_slots,
                               court_bookings)
        rest == reader.todo \ {court}
    IN  /\ reader.pc = "rows"
        /\ court \in reader.todo
        /\ reader' = [reader EXCEPT
                         !.pc = IF rest = {} THEN "done" ELSE "rows",
                         !.code = IF rest = {} THEN 200 ELSE 0,
                         !.todo = rest,
                         !.cells = @ \cup {[court |-> court._id, id |-> slots[i].id,
                                            time |-> slots[i].time,
                                            status |-> slots[i].status] :
                                               i \in 1..Len(reader.time_slots)},
                         !.seen = @ \cup Snapshot(bookings)]
        /\ UNCHANGED <<store, last, procs>>

\* POST /api/update-booking/ from request to response, at any moment of the
\* read.
WriteDuringRead(req) ==
    LET r == update_booking_api(req.user, req.court, req.idx, req.status, req.date,
                                courts, timeSlots, bookings, nextBookingId)
    IN  /\ bookings' = r.rows
        /\ nextBookingId' = r.next_id
        /\ last' = [Blank EXCEPT !.op = "set", !.idx = req.idx, !.status = req.status,
                                 !.code = r.code, !.error = r.error]
        /\ reader' = [reader EXCEPT !.seen = @ \cup Snapshot(r.rows)]
        /\ UNCHANGED <<sports, courts, timeSlots, nextSlotId, nextCourtId, procs>>

\* The requests made during a read: the slot of 22:00 of either court.
ReadRequests ==
    [user : {"bob"}, court : {"c1", "c2"}, idx : {IntId(3)},
     status : {"available", "maintenance", "reserved"}, date : {None}]

\* A booking of the second court.
Row1 ==
    [_id |-> 2, court |-> "c2", time_slot |-> 3, date |-> D1, user |-> "alice",
     status |-> "maintenance"]

\* The store of InitConc with bookings of both courts, one or none.
InitRead ==
    /\ sports = {[id |-> "badminton", name |-> "Badminton"],
                 [id |-> "cricket", name |-> "Cricket"]}
    /\ courts = {[_id |-> "c1", sport |-> "badminton", name |-> "Badminton Court 1"],
                 [_id |-> "c2", sport |-> "badminton", name |-> "Badminton Court 2"],
                 [_id |-> "c3", sport |-> "cricket", name |-> "Pitch-1"]}
    /\ timeSlots = {[_id |-> 1, hour |-> 12], [_id |-> 2, hour |-> 7],
                    [_id |-> 3, hour |-> 22]}
    /\ bookings \in {{Row0, Row1}, {Row0}, {}}
    /\ nextBookingId = 3
    /\ nextSlotId = 4
    /\ nextCourtId = 4
    /\ last = Blank
    /\ procs = [p \in Procs |-> Idle]
    /\ reader = NoRead

NextRead ==
    \/ \E sport_in \in SportInputs, date_in \in DateInputs : ReadStart(sport_in, date_in)
    \/ ReadCourts
    \/ ReadSlots
    \/ \E court \in courts : ReadCourt(court)
    \/ \E req \in ReadRequests : WriteDuringRead(req)
    \/ \E t \in timeSlots : t.hour = DefaultHourFirst /\ TimeSlotDestroy(t._id)

SpecRead == InitRead /\ [][NextRead]_vars

(***************************************************************************)
(* Properties.                                                             *)
(***************************************************************************)
TimeSlotList == OrderByHour(timeSlots)

\* The timeSlotId of a request is an integer in 1..n.
InRange(t) == t.kind \in {"int", "str"} /\ t.val \in 1..Len(TimeSlotList)

CellsOf(grid, c, i) == {x \in grid : x.court = c /\ x.id = i}

SportOfCourt(c) == (CHOOSE x \in courts : x._id = c).sport

\* The latest call was a SetSlotStatus that answered with success.
SetOk(l) == l.op = "set" /\ l.code = 200


\* The response update_booking_api gives to req in the present state, and
\* the rows it leaves.
Answer(req) ==
    update_booking_api(req.user, req.court, req.idx, req.status, req.date,
                       courts, timeSlots, bookings, nextBookingId)

\* The same for a store that holds rows.
AnswerOn(req, rows) ==
    update_booking_api(req.user, req.court, req.idx, req.status, req.date,
                       courts, timeSlots, rows, nextBookingId)

\* The response of GetStatusGrid(sport of court c, date d) when the store
\* holds rows.
GridOn(rows, c, d) ==
    court_status_api(SportOfCourt(c), isoformat(d), sports, courts, timeSlots, rows,
                     nextSlotId)

\* The grid shows status st, and nothing else, in the cell of court c at
\* index i.
Shows(g, c, i, st) ==
    /\ g.code = 200
    /\ CellsOf(g.courts, c, i) # {}
    /\ \A x \in CellsOf(g.courts, c, i) : x.status = st

\* The frontend index of the time slot of id t.
IndexOfSlot(t) == CHOOSE i \in 1..Len(TimeSlotList) : TimeSlotList[i]._id = t

\* C1: in every reachable state the Booking store holds at most one row for
\* each (court, time_slot, date).
C1_OneRowPerTriple ==
    \A a \in bookings, b \in bookings :
        (a.court = b.court /\ a.time_slot = b.time_slot /\ a.date = b.date) => a = b

\* A SetSlotStatus has written a triple that already held a row, beside a
\* row of another triple.
C1_Witness ==
    /\ SetOk(last) /\ last.action = "updated"
    /\ FilterTriple(bookings, last.court, last.slot, last.date) # {}
    /\ Cardinality(bookings) = 2

\* C2: two concurrent SetSlotStatus calls with non-available statuses for one
\* triple that held no booking when the first of them resolved it end with at
\* most one row for the triple, one call answering "created" and the other
\* "updated".
C2_ConcurrentUpsert ==
    \A p \in Procs, q \in Procs :
        ( /\ p # q
          /\ procs[p].pc = "done" /\ procs[q].pc = "done"
          /\ procs[p].court # None /\ procs[q].court # None
          /\ procs[p].status # "available" /\ procs[q].status # "available"
          /\ procs[p].court = procs[q].court /\ procs[p].slot = procs[q].slot
          /\ procs[p].date = procs[q].date
          /\ ~procs[p].had )
        => /\ Cardinality(FilterTriple(bookings, procs[p].court, procs[p].slot,
                                       procs[p].date)) <= 1
           /\ {procs[p].action, procs[q].action} = {"created", "updated"}

\* C3: after a GetStatusGrid, the cell of every court of the sport at every
\* index i is "available" when no booking exists for (court, i-th slot by
\* hour, date) and the status of that booking otherwise.
C3_GridMatchesStore ==
    (last.op = "grid" /\ last.code = 200) =>
        \A c \in courts : c.sport = last.sport =>
            \A i \in 1..Len(TimeSlotList) :
                LET rows == FilterTriple(bookings, c._id, TimeSlotList[i]._id, last.date)
                    cells == CellsOf(last.grid, c._id, i)
                IN  /\ Cardinality(cells) = 1
                    /\ \A x \in cells :
                          IF rows = {} THEN x.status = "available"
                          ELSE \A b \in rows : x.status = b.status

\* A grid that shows a booked slot at index 2 and an available one.
C3_Witness ==
    /\ last.op = "grid" /\ last.code = 200
    /\ \E x \in last.grid : x.id = 2 /\ x.status = "booked"
    /\ \E x \in last.grid : x.status = "available"

\* C4: in every reachable state, a successful SetSlotStatus(court, i, date,
\* s) with i in range and s not "available", followed at once by
\* GetStatusGrid(sport of court, date), shows s at index i of the court.
C4_RoundTrip ==
    \A req \in Requests :
        LET r == Answer(req) IN
        (r.code = 200 /\ req.status # "available" /\ InRange(req.idx))
            => Shows(GridOn(r.rows, r.court, r.date), r.court, req.idx.val, req.status)

\* A successful write of "maintenance" at index 2, which a grid may follow.
C4_Witness ==
    /\ SetOk(last) /\ last.status = "maintenance" /\ last.idx = StrId(2)
    /\ last.court = "c1"

\* C5: in every reachable state, SetSlotStatus "available" on a triple that
\* holds a booking answers "deleted", the same call made again at once
\* answers "no_change", and GetStatusGrid after either call shows "available"
\* in the cell of the triple.
C5_AvailableTwice ==
    \A req \in Requests :
        LET r1 == Answer(req)
            r2 == AnswerOn(req, r1.rows)
        IN  ( /\ req.status = "available" /\ r1.code = 200
              /\ FilterTriple(bookings, r1.court, r1.slot, r1.date) # {} )
            => /\ r1.action = "deleted"
               /\ r2.code = 200 /\ r2.action = "no_change"
               /\ Shows(GridOn(r1.rows, r1.court, r1.date), r1.court,
                        IndexOfSlot(r1.slot), "available")
               /\ Shows(GridOn(r2.rows, r1.court, r1.date), r1.court,
                        IndexOfSlot(r1.slot), "available")

\* The first of the two calls has deleted the booking of its triple.
C5_Witness ==
    /\ SetOk(last) /\ last.status = "available" /\ last.action = "deleted"
    /\ FilterTriple(bookings, last.court, last.slot, last.date) = {}

\* C6: in every reachable state, SetSlotStatus with a slot index that is no
\* integer in 1..n answers 400 and leaves the bookings as they were.
C6_BadIndexRejected ==
    \A req \in AnyRequests :
        ~InRange(req.idx) => (Answer(req).code = 400 /\ Answer(req).rows = bookings)

\* C7: in every reachable state, SetSlotStatus with a status outside the four
\* values answers 400, whatever the court id, the slot index and the date,
\* and leaves the bookings as they were.
C7_BadStatusRejected ==
    \A req \in AnyRequests :
        req.status \notin BookingStatus
            => /\ Answer(req).code = 400
               /\ Answer(req).rows = bookings
               /\ Answer(req).next_id = nextBookingId

\* A call with status "not_a_status" and a slot index in range was answered.
C7_Witness ==
    /\ last.op = "set" /\ last.status = "not_a_status" /\ last.idx = IntId(1)
    /\ last.code = 400 /\ last.error = "Invalid status"
    /\ bookings # {}

\* C8: no stored Booking has status "available".
C8_NoAvailableRow ==
    \A b \in bookings : b.status \in {"booked", "maintenance", "reserved"}

\* C9: in every reachable state, the action a successful SetSlotStatus
\* reports is the transition it makes on its triple: "created" iff no row
\* before and one after, "updated" iff a row before and the same row after,
\* "deleted" iff status available and a row before and none after,
\* "no_change" iff status available and no row before or after.
C9_ActionMatchesTransition ==
    \A req \in Requests :
        LET r == Answer(req)
            before == FilterTriple(bookings, r.court, r.slot, r.date)
            after == FilterTriple(r.rows, r.court, r.slot, r.date)
        IN  r.code = 200 =>
              /\ r.action = "created" <=> (before = {} /\ after # {})
              /\ r.action = "updated" <=>
                    ( /\ before # {}
                      /\ {b._id : b \in after} = {b._id : b \in before} )
              /\ r.action = "deleted" <=>
                    (req.status = "available" /\ before # {} /\ after = {})
              /\ r.action = "no_change" <=>
                    (req.status = "available" /\ before = {} /\ after = {})

\* A call answered "updated" and the row it names holds what it wrote.
C9_Witness ==
    /\ SetOk(last) /\ last.action = "updated" /\ last.status = "booked"
    /\ \E b \in bookings : b._id = last.id /\ b.status = "booked" /\ b.user = "bob"

\* C10: in every reachable state, SetSlotStatus with a status other than
\* "available" on a triple that holds a booking keeps the id, court, time
\* slot and date of that booking, sets its status and its user, and leaves
\* the number of rows as it was.
C10_UpdateInPlace ==
    \A req \in Requests :
        LET r == Answer(req)
            before == FilterTriple(bookings, r.court, r.slot, r.date)
        IN  (r.code = 200 /\ req.status # "available" /\ before # {})
            => /\ \E old \in before :
                     /\ r.rows = (bookings \ {old}) \cup
                                    {[old EXCEPT !.status = req.status,
                                                 !.user = req.user]}
                     /\ r.id = old._id
               /\ Cardinality(r.rows) = Cardinality(bookings)

\* A booking added by alice was rewritten by bob and kept its id.
C10_Witness ==
    /\ SetOk(last) /\ last.action = "updated" /\ last.status = "maintenance"
    /\ last.user = "bob"
    /\ \E b \in bookings : /\ b._id = last.id /\ b.user = "bob"
                           /\ b.status = "maintenance" /\ b.court = last.court
                           /\ b.time_slot = last.slot /\ b.date = last.date

\* The call of process p has made its get() and is about to write: what the
\* rest of update_or_create answers on the present rows.
PendingWrite(p) ==
    UocWrite(bookings, procs[p].got, procs[p].court, procs[p].slot, procs[p].date,
             procs[p].status, procs[p].user, nextBookingId)

\* C11: a SetSlotStatus whose get() found no row and which writes when the
\* triple holds one (it lost the find-or-create race) answers with success
\* and action "updated", and no write of a SetSlotStatus answers with the
\* uniqueness violation of the storage.
C11_RaceRecovered ==
    \A p \in Procs :
        procs[p].pc = "got" =>
            /\ PendingWrite(p).error # "IntegrityError"
            /\ ( /\ procs[p].got.found = "DoesNotExist"
                 /\ FilterTriple(bookings, procs[p].court, procs[p].slot,
                                 procs[p].date) # {} )
               => (PendingWrite(p).ok /\ ActionOf(PendingWrite(p).created) = "updated")

\* The accounts that call SetSlotStatus in C12.
Callers == {"bob", "carol"}

IsDefaultSeed(slots) ==
    /\ Cardinality(slots) = 16
    /\ {t.hour : t \in slots} = 7..22

\* What a call that answers r, with the time slots r.slots left in the
\* store and the hours r_hours in its answer, owes to lazy seeding.
SeedsLazily(r_slots, r_hours) ==
    IF timeSlots = {}
    THEN IsDefaultSeed(r_slots) /\ r_hours = 7..22
    ELSE r_slots = timeSlots /\ r_hours = {t.hour : t \in timeSlots}

\* The hours of the time slots a list answers with.
HoursListed(listed) == {listed[i].hour : i \in DOMAIN listed}

\* C13: in every reachable state, a GetStatusGrid that is answered and a
\* ListTimeSlots create the time slots of hours 7..22, sixteen of them, and
\* answer from them when the store holds no time slot, and create none when
\* it holds one.
C13_LazySeeding ==
    /\ \A sport_in \in SportInputs, date_in \in DateInputs :
          LET r == court_status_api(sport_in, date_in, sports, courts, timeSlots,
                                    bookings, nextSlotId)
          IN  r.code = 200 =>
                /\ IF timeSlots = {} THEN IsDefaultSeed(r.slots)
                                     ELSE r.slots = timeSlots
                /\ \A x \in r.courts : x.id \in 1..Cardinality(r.slots)
    /\ LET r == ViewSetList(timeSlots, nextSlotId)
       IN  SeedsLazily(r.slots, HoursListed(r.listed))

\* C14: in every reachable state every time slot has an hour in 0..23 and
\* no two time slots have the same hour.
C14_HoursValidAndUnique ==
    /\ \A t \in timeSlots : t.hour \in 0..23
    /\ \A a \in timeSlots, b \in timeSlots : a.hour = b.hour => a = b

\* C15: in every reachable state and for every index i in 1..n, the time
\* slot SetSlotStatus resolves i to is the one with i - 1 time slots of an
\* earlier hour, the cell of index i of every court in GetStatusGrid carries
\* the label of that time slot, and with the default time slots index 1 is
\* hour 7 and index 16 is hour 22.
C15_IndexDenotesSameSlot ==
    /\ \A i \in 1..Cardinality(timeSlots) :
          LET found == SlotOfIndex(timeSlots, i) IN
          /\ found.ok
          /\ found.val \in timeSlots
          /\ Cardinality({t \in timeSlots : t.hour < found.val.hour}) = i - 1
          /\ \A c \in courts :
                c._id \in WellFormedObjectIds
                    => Resolve(c._id, IntId(i), "booked", None, courts,
                               timeSlots).slot = found.val._id
          /\ IsDefaultSeed(timeSlots) =>
                /\ i = 1 => found.val.hour = 7
                /\ i = 16 => found.val.hour = 22
    /\ \A s \in sports :
          LET g == court_status_api(s.id, None, sports, courts, timeSlots, bookings,
                                    nextSlotId)
          IN  /\ g.code = 200
              /\ timeSlots # {} =>
                    /\ \A c \in courts : c.sport = s.id =>
                          {x.id : x \in {y \in g.courts : y.court = c._id}}
                              = 1..Cardinality(timeSlots)
                    /\ \A x \in g.courts :
                          /\ x.id \in 1..Cardinality(timeSlots)
                          /\ x.time = formatted_slot(SlotOfIndex(timeSlots, x.id).val.hour)

\* A grid was answered from the default time slots: its index 1 is 7:00 AM
\* and its index 16 is 10:00 PM.
C15_Witness ==
    /\ last.op = "grid" /\ last.code = 200
    /\ IsDefaultSeed(timeSlots)
    /\ \E x \in last.grid : x.id = 1 /\ x.time = "7:00 AM"
    /\ \E x \in last.grid : x.id = 16 /\ x.time = "10:00 PM"

\* No two sports of one id, no two courts of one sport and name, no two time
\* slots of one hour.
NoDuplicates(sport_rows, court_rows, slot_rows) ==
    /\ \A a \in sport_rows, b \in sport_rows : a.id = b.id => a = b
    /\ \A a \in court_rows, b \in court_rows :
          (a.sport = b.sport /\ a.name = b.name) => a = b
    /\ \A a \in slot_rows, b \in slot_rows : a.hour = b.hour => a = b

\* C16: in every reachable state, SeedSampleData followed by SeedSampleData
\* leaves after the second call the sports, courts and time slots the first
\* call left, and these hold no duplicate sport id, no duplicate (sport,
\* court name) and no duplicate hour.
C16_SeedIdempotent ==
    LET r1 == create_sample_data(sports, courts, timeSlots, nextSlotId, nextCourtId)
        r2 == create_sample_data(r1.sports, r1.courts, r1.slots, r1.next_slot_id,
                                 r1.next_court_id)
    IN  /\ r1.code = 200 /\ r2.code = 200
        /\ r2.sports = r1.sports /\ r2.courts = r1.courts /\ r2.slots = r1.slots
        /\ NoDuplicates(r1.sports, r1.courts, r1.slots)
        /\ last.op = "seed" =>
              /\ r1.sports = sports /\ r1.courts = courts /\ r1.slots = timeSlots
              /\ NoDuplicates(sports, courts, timeSlots)

\* The sample data was created beside the courts of Init and a time slot of
\* hour 0: six sports, four courts each, the sixteen default hours and 0.
C16_Witness ==
    /\ last.op = "seed" /\ last.code = 200
    /\ Cardinality(sports) = 6 /\ Cardinality(courts) = 24
    /\ \E c \in courts : c._id = "c2" /\ c.name = "Badminton Court 2"
    /\ Cardinality(timeSlots) = 17

\* C17: in every reachable state every booking references a court and a
\* time slot that exist.
C17_BookingsReferenceExisting ==
    \A b \in bookings :
        /\ \E c \in courts : c._id = b.court
        /\ \E t \in timeSlots : t._id = b.time_slot

\* The label the claim gives hour h: the hour of the 12-hour clock, ":00"
\* and AM before noon, PM from noon on.
ClockLabel(h) ==
    ToString(IF h = 0 \/ h = 12 THEN 12 ELSE h % 12) \o ":00 "
        \o (IF h < 12 THEN "AM" ELSE "PM")

\* C18: formatted_slot of every hour h in 0..23 is "<h12>:00 <AM|PM>", h12
\* being 12 for h = 0 and h = 12 and h mod 12 otherwise, AM for h < 12 and PM
\* otherwise; and every time slot of such an hour is listed with that label.
C18_FormattedSlot ==
    /\ \A h \in 0..23 : formatted_slot(h) = ClockLabel(h)
    /\ formatted_slot(0) = "12:00 AM" /\ formatted_slot(7) = "7:00 AM"
    /\ formatted_slot(12) = "12:00 PM" /\ formatted_slot(23) = "11:00 PM"
    /\ last.op = "list" =>
          \A i \in DOMAIN last.listed :
              last.listed[i].hour \in 0..23
                  => last.listed[i].formatted_slot = ClockLabel(last.listed[i].hour)

\* The time slots were listed with midnight, noon and an evening hour.
C18_Witness ==
    /\ last.op = "list" /\ last.code = 200
    /\ \E i \in DOMAIN last.listed :
          last.listed[i].hour = 0 /\ last.listed[i].formatted_slot = "12:00 AM"
    /\ \E i \in DOMAIN last.listed :
          last.listed[i].hour = 12 /\ last.listed[i].formatted_slot = "12:00 PM"
    /\ \E i \in DOMAIN last.listed :
          last.listed[i].hour = 22 /\ last.listed[i].formatted_slot = "10:00 PM"

\* The checks of SetSlotStatus, each by itself: the fields that are missing,
\* the status, the date, the slot index, the court.
FailsMissing(req) ==
    req.court = None \/ req.idx.kind = "none" \/ req.idx = IntId(0) \/ req.status = None

FailsStatus(req) == req.status \notin BookingStatus

FailsDate(req) == req.date # None /\ fromisoformat(req.date) = BadDate

FailsSlot(req) ==
    \/ req.idx.kind \notin {"int", "str"}
    \/ req.idx.val - 1 >= Cardinality(timeSlots)
    \/ req.idx.val - 1 < 0 - Cardinality(timeSlots)

FailsCourt(req) == ~(\E c \in courts : c._id = req.court)

\* The error of the earliest check that fails, in the order of the claim.
EarliestFailure(req) ==
    CASE FailsMissing(req) -> "Missing required fields"
      [] FailsStatus(req) -> "Invalid status"
      [] FailsDate(req) -> "Invalid date format"
      [] FailsSlot(req) -> "Invalid court or time slot"
      [] FailsCourt(req) -> "Invalid court or time slot"
      [] OTHER -> None

\* C19: in every reachable state and for every request, SetSlotStatus answers
\* with the error of the earliest failing check in the order missing fields,
\* status, date, slot index, court; when the slot index and the court both
\* fail the message is that of the slot index; and a call that fails a check
\* writes nothing.
C19_ValidationOrder ==
    \A req \in AnyRequests :
        LET r == Answer(req) IN
        /\ r.error # "Failed to update booking" => r.error = EarliestFailure(req)
        /\ EarliestFailure(req) # None =>
              /\ r.code = 400
              /\ r.rows = bookings /\ r.next_id = nextBookingId
        /\ ( /\ ~FailsMissing(req) /\ ~FailsStatus(req) /\ ~FailsDate(req)
             /\ FailsSlot(req) /\ FailsCourt(req) )
           => r.detail \in {"ValueError", "IndexError"}

\* A call whose status and slot index are both invalid was answered with the
\* error of the status, beside a booking.
C19_Witness ==
    /\ last.op = "set" /\ last.status = "not_a_status" /\ last.idx = BadId
    /\ last.code = 400 /\ last.error = "Invalid status"
    /\ bookings # {}

\* The answer of SetSlotStatus to req when the delete or the upsert raises.
AnswerRaises(req) ==
    update_booking_api_raises(req.user, req.court, req.idx, req.status, req.date,
                              courts, timeSlots, bookings, nextBookingId)

\* C20: in every reachable state and for every request that passes the
\* checks, a delete or an upsert that raises is answered with status 500 and
\* an error message, without action or booking id; the same holds of the
\* upsert that fails by itself; and no answer of SetSlotStatus carries an
\* error beside an action or a booking id.
C20_StorageFailureIs500 ==
    /\ \A req \in AnyRequests :
          LET r == AnswerRaises(req)
              a == Answer(req)
          IN  /\ Resolve(req.court, req.idx, req.status, req.date, courts, timeSlots).code
                     = 200
                 => /\ r.code = 500 /\ r.error = "Failed to update booking"
                    /\ r.action = None /\ r.id = 0
              /\ a.error = "Failed to update booking" => a.code = 500
              /\ a.error # None => a.action = None /\ a.id = 0
              /\ r.error # None => r.action = None /\ r.id = 0
    /\ (last.op = "set" /\ last.error # None) => (last.action = None /\ last.id = 0)

\* A delete of a booked cell raised and the call was answered with 500.
C20_Witness ==
    /\ last.op = "set" /\ last.status = "available"
    /\ last.code = 500 /\ last.error = "Failed to update booking"
    /\ last.action = None
    /\ bookings # {}

\* The bookings whose time slot is not among the time slots of the store.
Dangling(rows) == {b \in rows : ~(\E t \in timeSlots : t._id = b.time_slot)}

\* C21: in every reachable state, GetStatusGrid for the sport of any court
\* and the date of any booking succeeds and returns the grid it would return
\* if the bookings whose time slot is no longer stored were not there: every
\* cell has the value the other bookings give it.
C21_DanglingSkipped ==
    \A c \in courts, d \in {D1, D2} :
        LET g == GridOn(bookings, c._id, d)
            h == GridOn(bookings \ Dangling(bookings), c._id, d)
        IN  /\ g.code = 200
            /\ g.courts = h.courts
            /\ \A b \in Dangling(bookings) :
                  (b.court = c._id /\ b.date = d /\ FilterTriple(bookings \ {b}, c._id,
                       b.time_slot, d) = {})
                  => \A x \in g.courts :
                        (x.court = c._id /\ FilterTriple(bookings, c._id,
                              TimeSlotList[x.id]._id, d) = {})
                        => x.status = "available"

\* A grid was read that holds the court of a booking whose time slot is
\* gone, and shows that court available throughout.
C21_Witness ==
    /\ last.op = "grid" /\ last.code = 200
    /\ \E b \in Dangling(bookings) :
          /\ b.date = last.date
          /\ \E x \in last.grid : x.court = b.court
          /\ \A x \in last.grid : x.court = b.court => x.status = "available"
          /\ last.grid = GridOn(bookings, b.court, b.date).courts

\* The 1-based position of the time slot of id t among slot_rows by hour.
PositionIn(slot_rows, t) ==
    CHOOSE i \in 1..Len(OrderByHour(slot_rows)) : OrderByHour(slot_rows)[i]._id = t

\* The hours a time slot is inserted at.
InsertHours == {0, 6, 13}

\* The changes of the set of time slots: the delete of a stored time slot and
\* the insert of one, each with the hour of the slot that comes or goes, the
\* time slots and the bookings it leaves.
SlotChanges ==
    {[hour |-> t.hour, gone |-> t._id,
      slots |-> ViewSetDestroy(timeSlots, bookings, t._id).slots,
      rows |-> ViewSetDestroy(timeSlots, bookings, t._id).rows] : t \in timeSlots}
    \cup {[hour |-> h, gone |-> 0,
           slots |-> ViewSetCreate(timeSlots, h, nextSlotId).slots,
           rows |-> bookings] :
            h \in {x \in InsertHours : ViewSetCreate(timeSlots, x, nextSlotId).code = 201}}

\* The time slots that stay and come after the hour of the change.
Later(ch) == {t \in timeSlots : t._id # ch.gone /\ t.hour > ch.hour}

\* The bookings of the time slots that stay are stored as they were.
BookingsKept(ch) == \A b \in bookings : b.time_slot # ch.gone => b \in ch.rows

\* Every later time slot has moved by one position, and the grid shows each
\* of its bookings at the new position.
Renumbered(ch) ==
    /\ \A t \in Later(ch) :
          PositionIn(ch.slots, t._id) =
              PositionIn(timeSlots, t._id) + (IF ch.gone = 0 THEN 1 ELSE -1)
    /\ \A b \in ch.rows :
          (\E c \in courts : c._id = b.court) /\ (\E t \in ch.slots : t._id = b.time_slot)
          => LET g == court_status_api(SportOfCourt(b.court), isoformat(b.date), sports,
                                       courts, ch.slots, ch.rows, nextSlotId)
             IN  Shows(g, b.court, PositionIn(ch.slots, b.time_slot), b.status)

\* What SetSlotStatus resolves, after the change, from the index the time
\* slot t had before it.
StaleResolve(ch, c, t) ==
    Resolve(c, IntId(PositionIn(timeSlots, t)), "booked", None, courts, ch.slots)

\* C22 as stated: after the delete or the insert of a time slot of an
\* earlier hour the bookings of the other slots are stored as before and
\* shown at their new positions, and a SetSlotStatus with an index read
\* before the change acts on another time slot.
C22_StaleIndexActsElsewhere ==
    \A ch \in SlotChanges :
        /\ BookingsKept(ch)
        /\ Renumbered(ch)
        /\ \A t \in Later(ch), c \in courts :
              /\ StaleResolve(ch, c._id, t._id).code = 200
              /\ StaleResolve(ch, c._id, t._id).slot # t._id

\* C22, amended: after the delete or the insert of a time slot of an earlier
\* hour the bookings of the other slots are stored as before and shown at
\* their new positions, and a SetSlotStatus with an index read before the
\* change never resolves the time slot the index denoted: it resolves another
\* one, or, for the index of the last slot after a delete, it is refused with
\* 400 because the index is out of range.
C22_StaleIndexMisses ==
    \A ch \in SlotChanges :
        /\ BookingsKept(ch)
        /\ Renumbered(ch)
        /\ \A t \in Later(ch), c \in courts :
              LET v == StaleResolve(ch, c._id, t._id)
                  n == Len(OrderByHour(ch.slots))
              IN  /\ v.slot # t._id
                  /\ v.code = 400 <=> (ch.gone # 0 /\ PositionIn(timeSlots, t._id) = n + 1)
                  /\ v.code = 400 => v.detail = "IndexError"

\* The time slot of 7:00 was deleted while the slot of 22:00 held a booking:
\* the booking is stored and is now at position 2 of 2.
C22_Witness ==
    /\ last.op = "slot_destroy" /\ last.code = 204
    /\ Len(TimeSlotList) = 2
    /\ \E b \in bookings :
          /\ \E t \in timeSlots : t._id = b.time_slot /\ t.hour = 22
          /\ IndexOfSlot(b.time_slot) = 2
          /\ \E c \in courts : c._id = b.court

\* Booking(court, time_slot, date, status, user).save() on the store: the
\* direct save of a new instance for what req resolves to.
DirectSave(req) ==
    LET v == Resolve(req.court, req.idx, req.status, req.date, courts, timeSlots) IN
    BookingSave(bookings,
                [_id |-> 0, court |-> v.court, time_slot |-> v.slot, date |-> v.date,
                 user |-> req.user, status |-> req.status],
                nextBookingId)

\* C23: in every reachable state and for every request with a status other
\* than "available" whose triple holds a booking, the save of a new Booking
\* instance for the triple rewrites the status and the user of that row,
\* keeps its id and adds no row; SetSlotStatus leaves the same rows and the
\* same next id.
C23_SaveMatchesUpsert ==
    \A req \in Requests :
        LET v == Resolve(req.court, req.idx, req.status, req.date, courts, timeSlots)
            r == Answer(req)
            direct == DirectSave(req)
            before == FilterTriple(bookings, v.court, v.slot, v.date)
        IN  (v.code = 200 /\ req.status # "available" /\ before # {})
            => /\ direct.ok
               /\ \E old \in before :
                     direct.rows = (bookings \ {old}) \cup
                                      {[old EXCEPT !.status = req.status,
                                                   !.user = req.user]}
               /\ Cardinality(direct.rows) = Cardinality(bookings)
               /\ r.code = 200
               /\ r.rows = direct.rows
               /\ r.next_id = direct.next_id

\* The admin site saved a new Booking of carol for the triple of the booking
\* of alice: the one row of the store keeps its id and is carol's.
C23_Witness ==
    /\ last.op = "admin_add"
    /\ bookings = {[Row0 EXCEPT !.user = "carol"]}
    /\ nextBookingId = 2

\* C24: in every state of a GetStatusGrid that runs beside SetSlotStatus
\* calls and deletes of time slots, every cell built so far is "available"
\* or shows a status some booking of the cell's court, time slot and date
\* held at a moment since the call started; a call with a date that parses
\* and a sport ends with status 200 and one cell for each court of the sport
\* and each time slot it fetched.
C24_ReadBesideWrites ==
    /\ \A x \in reader.cells :
          \/ x.status = "available"
          \/ <<x.court, reader.time_slots[x.id]._id, reader.date, x.status>>
                 \in reader.seen
    /\ (reader.pc = "done" /\ reader.date # BadDate) =>
          /\ reader.code = 200
          /\ \A c \in courts : c.sport = reader.sport =>
                \A i \in 1..Len(reader.time_slots) :
                    Cardinality(CellsOf(reader.cells, c._id, i)) = 1
    /\ (reader.pc = "done" /\ reader.code # 200) =>
          (reader.code = 400 /\ reader.error = "Invalid date format")

\* A read has ended whose grid shows the first court booked, as it was read,
\* and the second court reserved, as a call wrote it during the read after
\* the court had been under maintenance; the first court was rewritten after
\* it was read.
C24_Witness ==
    /\ reader.pc = "done" /\ reader.code = 200
    /\ \E x \in reader.cells : x.court = "c1" /\ x.status = "booked"
    /\ \E x \in reader.cells : x.court = "c2" /\ x.status = "reserved"
    /\ <<"c2", 3, D1, "maintenance">> \in reader.seen
    /\ \E b \in bookings : b.court = "c1" /\ b.status = "maintenance"

\* The cells of GetStatusGrid(sport, d) when the store holds rows.
GridCells(rows, sport, d) ==
    court_status_api(sport, isoformat(d), sports, courts, timeSlots, rows,
                     nextSlotId).courts

\* C25: in every reachable state and for every request, a SetSlotStatus that
\* succeeds on the triple (court, time slot, date) leaves the bookings of
\* every other triple as they were, none added, and the grid of any sport and
\* date after it differs from the grid before it at most in the cell of the
\* court at the index of the time slot, on the grid of its sport and date.
C25_OtherTriplesUntouched ==
    /\ \A req \in Requests :
          LET r == Answer(req)
              other(b) == ~(b.court = r.court /\ b.time_slot = r.slot /\ b.date = r.date)
          IN  r.code = 200 =>
                {b \in bookings : other(b)} = {b \in r.rows : other(b)}
    /\ \A sp \in sports, d \in {D1, D2} :
          LET g0 == GridCells(bookings, sp.id, d) IN
          \A req \in Requests :
              LET r == Answer(req) IN
              (r.code = 200 /\ r.rows # bookings) =>
                  \A x \in (g0 \ GridCells(r.rows, sp.id, d))
                               \cup (GridCells(r.rows, sp.id, d) \ g0) :
                      /\ x.court = r.court
                      /\ x.id = IndexOfSlot(r.slot)
                      /\ d = r.date
                      /\ sp.id = SportOfCourt(r.court)

\* A SetSlotStatus deleted the booking of its triple and the booking of
\* another slot of the same court and date is still stored.
C25_Witness ==
    /\ SetOk(last) /\ last.action = "deleted"
    /\ FilterTriple(bookings, last.court, last.slot, last.date) = {}
    /\ \E b \in bookings :
          b.court = last.court /\ b.date = last.date /\ b.time_slot # last.slot

\* The errors of the checks of SetSlotStatus.
ValidationErrors ==
    {"Missing required fields", "Invalid status", "Invalid date format",
     "Invalid court or time slot"}

\* C26: in every reachable state, a SetSlotStatus that any request would be
\* answered with a validation error leaves the bookings and the next booking
\* id as they are; and every step of a SetSlotStatus answered 400 leaves the
\* Booking, Court, Sport and TimeSlot stores as they were.
C26_ValidationWritesNothing ==
    /\ [](\A req \in AnyRequests :
            LET r == Answer(req) IN
            /\ r.code = 400 <=> r.error \in ValidationErrors
            /\ r.code = 400 => (r.rows = bookings /\ r.next_id = nextBookingId))
    /\ [][(last'.op = "set" /\ last'.code = 400) => UNCHANGED store]_vars

\* A SetSlotStatus for 'available' with a date that does not parse was
\* answered 400 and the booking is still stored.
C26_Witness ==
    /\ last.op = "set" /\ last.code = 400 /\ last.error = "Invalid date format"
    /\ last.status = "available" /\ last.idx = StrId(3)
    /\ bookings # {}

\* C27: in every reachable state and for every sport and date asked,
\* court_status_api leaves the time slots as they are unless there is none,
\* and then it adds the default ones and nothing else; answered 400 or 404 it
\* leaves them as they are in every case; and every step of GetStatusGrid
\* leaves the Booking, Court and Sport stores as they were, creates time
\* slots only in a store that has none, and none when it fails.
C27_GridWritesOnlyDefaultSlots ==
    /\ [](\A sport_in \in SportInputs, date_in \in DateInputs :
            LET r == court_status_api(sport_in, date_in, sports, courts, timeSlots,
                                      bookings, nextSlotId)
            IN  /\ r.code \in {200, 400, 404}
                /\ r.code # 200 => (r.slots = timeSlots /\ r.next_id = nextSlotId)
                /\ timeSlots # {} => (r.slots = timeSlots /\ r.next_id = nextSlotId)
                /\ (r.code = 200 /\ timeSlots = {}) => IsDefaultSeed(r.slots))
    /\ [][last'.op = "grid" =>
            /\ UNCHANGED <<sports, courts, bookings, nextBookingId, nextCourtId>>
            /\ last'.code # 200 => UNCHANGED <<timeSlots, nextSlotId>>
            /\ timeSlots' # timeSlots => (timeSlots = {} /\ IsDefaultSeed(timeSlots'))
         ]_vars

\* A GetStatusGrid without a sport, in a store without sports and without
\* time slots, was answered 404 and created no time slot.
C27_Witness ==
    /\ last.op = "grid" /\ last.code = 404 /\ last.error = "No sports available"
    /\ sports = {} /\ timeSlots = {} /\ nextSlotId = 1
====
